---- MODULE Spec2Model ----
(***************************************************************************)
(* Model of proof_of_concept.py: the embeddings cache builder              *)
(* (create_or_update_embeddings), the stipend parser (parse_stipend) and   *)
(* the hybrid scorer and ranker (recommend_internships).                   *)
(*                                                                         *)
(* Python strings are sequences of one-character strings, so that lower,   *)
(* replace, split, strip, the substring test and int() are computed the    *)
(* way the interpreter computes them.  Scores are integers in units of     *)
(* 1/300: every boost of the code (0.15, 0.05, 0.10, 0.10*(30-d)/30) and   *)
(* both tier thresholds (0.30, 0.45) are whole numbers of that unit.       *)
(***************************************************************************)
EXTENDS Integers, Sequences, FiniteSets, TLC

VARIABLES
    \* ---- create_or_update_embeddings ----
    cache_file,     \* the file embeddings_cache.json
    pc,             \* per run: where the run stands
    internships,    \* per run: the catalog the run was given
    cache,          \* per run: the local dict `cache`
    idx,            \* per run: position of the for loop over internships
    updated,        \* per run: the local flag `updated`
    embeddings_matrix, \* per run: the returned matrix (rows in catalog order)
    encoded,        \* per run: ids handed to model.encode in this run, in order
    writes,         \* per run: number of times this run wrote the cache file
    start_file,     \* per run: the cache file as it was when the run began
    \* ---- parse_stipend ----
    stipend_str,    \* the argument
    stipend_ret,    \* the call's result
    \* ---- recency boost (lines 126-134) ----
    rb,             \* the deadline, today, days_left and the boost added
    \* ---- recommend_internships ----
    rk              \* one call: its arguments, locals and return value

cacheVars == <<cache_file, pc, internships, cache, idx, updated,
               embeddings_matrix, encoded, writes, start_file>>
vars == <<cacheVars, stipend_str, stipend_ret, rb, rk>>

\* ------------------------------------------------------------------------
\* Bounds of the model
\* ------------------------------------------------------------------------
MaxLen == 4         \* longest enumerated stipend string
MaxItems == 3       \* longest catalog handed to recommend_internships
MaxTopK == 3        \* largest top_k handed to recommend_internships
MaxCatalog == 2     \* longest catalog handed to create_or_update_embeddings
MaxId == 2          \* internship ids are 1..MaxId

\* ------------------------------------------------------------------------
\* Python str operations
\* ------------------------------------------------------------------------
Digits == <<"0", "1", "2", "3", "4", "5", "6", "7", "8", "9">>
UpperLetters == <<"A", "B", "C", "D", "E", "F", "G", "H", "I", "J", "K", "L", "M",
                  "N", "O", "P", "Q", "R", "S", "T", "U", "V", "W", "X", "Y", "Z">>
LowerLetters == <<"a", "b", "c", "d", "e", "f", "g", "h", "i", "j", "k", "l", "m",
                  "n", "o", "p", "q", "r", "s", "t", "u", "v", "w", "x", "y", "z">>

DigitSet == { Digits[i] : i \in 1..10 }
DigitValueOf == [c \in DigitSet |-> (CHOOSE i \in 1..10 : Digits[i] = c) - 1]
UpperSet == { UpperLetters[i] : i \in 1..26 }
LowerOf == [c \in UpperSet |-> LowerLetters[CHOOSE i \in 1..26 : UpperLetters[i] = c]]

IsDigit(c) == c \in DigitSet
DigitValue(c) == DigitValueOf[c]

\* str.lower() on one character
LowerChar(c) == IF c \in UpperSet THEN LowerOf[c] ELSE c

\* str.lower()
Lower(s) == [i \in 1..Len(s) |-> LowerChar(s[i])]

\* s.replace(c, ""): every occurrence of the character c removed
RECURSIVE RemoveChar(_, _)
RemoveChar(s, c) ==
    IF s = <<>> THEN <<>>
    ELSE IF Head(s) = c THEN RemoveChar(Tail(s), c)
    ELSE <<Head(s)>> \o RemoveChar(Tail(s), c)

\* s.split(c): the pieces between occurrences of c, empty pieces kept
RECURSIVE SplitOnFrom(_, _, _)
SplitOnFrom(s, c, cur) ==
    IF s = <<>> THEN <<cur>>
    ELSE IF Head(s) = c THEN <<cur>> \o SplitOnFrom(Tail(s), c, <<>>)
    ELSE SplitOnFrom(Tail(s), c, Append(cur, Head(s)))

SplitOn(s, c) == SplitOnFrom(s, c, <<>>)

\* s.split(): the maximal runs of non-whitespace characters
RECURSIVE SplitWsFrom(_, _)
SplitWsFrom(s, cur) ==
    IF s = <<>> THEN (IF cur = <<>> THEN <<>> ELSE <<cur>>)
    ELSE IF Head(s) = " "
         THEN (IF cur = <<>> THEN <<>> ELSE <<cur>>) \o SplitWsFrom(Tail(s), <<>>)
         ELSE SplitWsFrom(Tail(s), Append(cur, Head(s)))

SplitWs(s) == SplitWsFrom(s, <<>>)

\* c in s
HasChar(s, c) == \E i \in 1..Len(s) : s[i] = c

\* sub in s
Contains(s, sub) ==
    \E k \in 0..(Len(s) - Len(sub)) : \A i \in 1..Len(sub) : s[k + i] = sub[i]

\* s.strip()
RECURSIVE LStrip(_)
LStrip(s) == IF s # <<>> /\ Head(s) = " " THEN LStrip(Tail(s)) ELSE s

RECURSIVE RStrip(_)
RStrip(s) ==
    IF s # <<>> /\ s[Len(s)] = " " THEN RStrip(SubSeq(s, 1, Len(s) - 1)) ELSE s

Strip(s) == RStrip(LStrip(s))

\* s.replace(pat, "") for a non-empty pat: leftmost occurrences, left to right
RECURSIVE RemoveAll(_, _)
RemoveAll(s, pat) ==
    IF Len(s) < Len(pat) THEN s
    ELSE IF SubSeq(s, 1, Len(pat)) = pat
         THEN RemoveAll(SubSeq(s, Len(pat) + 1, Len(s)), pat)
         ELSE <<Head(s)>> \o RemoveAll(Tail(s), pat)

\* int(tok) accepts an optional sign followed by one or more digits
IntBody(tok) ==
    IF tok # <<>> /\ tok[1] \in {"+", "-"} THEN Tail(tok) ELSE tok

IsIntLiteral(tok) ==
    /\ IntBody(tok) # <<>>
    /\ \A i \in 1..Len(IntBody(tok)) : IsDigit(IntBody(tok)[i])

RECURSIVE DigitsValue(_)
DigitsValue(ds) ==
    IF ds = <<>> THEN 0
    ELSE 10 * DigitsValue(SubSeq(ds, 1, Len(ds) - 1)) + DigitValue(ds[Len(ds)])

IntOf(tok) ==
    IF tok[1] = "-" THEN 0 - DigitsValue(IntBody(tok)) ELSE DigitsValue(IntBody(tok))

\* ------------------------------------------------------------------------
\* Python values of a catalog field: a string, a number, or None
\* ------------------------------------------------------------------------
Str(s) == [t |-> "str", s |-> s]
Num(n) == [t |-> "num", n |-> n]
None == [t |-> "none"]

\* What a call does: return a value or raise
Return(v) == [exc |-> "none", val |-> v]
Raise(e) == [exc |-> e, val |-> 0]

\* ------------------------------------------------------------------------
\* parse_stipend
\* ------------------------------------------------------------------------
unpaid == <<"u", "n", "p", "a", "i", "d">>

\* lines 90-91: low, high = parts[0].split("-") and the average
UnpackRange(lh) ==
    IF Len(lh) # 2 THEN Return(0)                      \* unpack: ValueError
    ELSE IF ~IsIntLiteral(lh[1]) \/ ~IsIntLiteral(lh[2]) THEN Return(0)
    ELSE Return((IntOf(lh[1]) + IntOf(lh[2])) \div 2)

\* lines 89-92 on the whitespace-separated tokens
ParseTokens(parts) ==
    IF parts = <<>> THEN Return(0)                     \* parts[0]: IndexError
    ELSE IF HasChar(parts[1], "-") THEN UnpackRange(SplitOn(parts[1], "-"))
    ELSE IF IsIntLiteral(parts[1]) THEN Return(IntOf(parts[1]))
    ELSE Return(0)                                     \* int(): ValueError

parse_stipend(v) ==
    IF v.t = "num" THEN Return(v.n)                    \* lines 84-85
    ELSE IF v.t = "none" THEN Raise("AttributeError")  \* line 86: None.lower()
    ELSE IF Lower(v.s) = unpaid THEN Return(0)         \* lines 86-87
    ELSE ParseTokens(SplitWs(RemoveChar(v.s, ",")))    \* line 88

\* ------------------------------------------------------------------------
\* datetime.datetime.strptime(s, "%d-%b-%Y").date() and date arithmetic
\* ------------------------------------------------------------------------
MonthAbbr == << <<"j", "a", "n">>, <<"f", "e", "b">>, <<"m", "a", "r">>,
                <<"a", "p", "r">>, <<"m", "a", "y">>, <<"j", "u", "n">>,
                <<"j", "u", "l">>, <<"a", "u", "g">>, <<"s", "e", "p">>,
                <<"o", "c", "t">>, <<"n", "o", "v">>, <<"d", "e", "c">> >>

IsLeap(y) == (y % 4 = 0) /\ ((y % 100 # 0) \/ (y % 400 = 0))

DaysInMonth(y, m) ==
    IF m = 2 THEN (IF IsLeap(y) THEN 29 ELSE 28)
    ELSE IF m \in {4, 6, 9, 11} THEN 30 ELSE 31

RECURSIVE DaysBeforeMonth(_, _)
DaysBeforeMonth(y, m) ==
    IF m = 1 THEN 0 ELSE DaysBeforeMonth(y, m - 1) + DaysInMonth(y, m - 1)

\* date.toordinal(): days since 31-Dec-0000 of the proleptic Gregorian calendar
Ordinal(y, m, d) ==
    365 * (y - 1) + ((y - 1) \div 4) - ((y - 1) \div 100) + ((y - 1) \div 400)
        + DaysBeforeMonth(y, m) + d

AllDigits(s) == \A i \in 1..Len(s) : IsDigit(s[i])

\* %d: one or two digits (or a space and a digit) naming 1..31
DayField(s) ==
    IF s # <<>> /\ Len(s) <= 2 /\ AllDigits(s) /\ DigitsValue(s) \in 1..31
    THEN DigitsValue(s)
    ELSE IF Len(s) = 2 /\ s[1] = " " /\ IsDigit(s[2]) /\ s[2] # "0"
    THEN DigitValue(s[2])
    ELSE 0

\* %b: a month abbreviation, case-insensitive
MonthField(s) ==
    IF \E m \in 1..12 : MonthAbbr[m] = Lower(s)
    THEN CHOOSE m \in 1..12 : MonthAbbr[m] = Lower(s)
    ELSE 0

\* %Y: exactly four digits, and date() refuses year 0
YearField(s) == IF Len(s) = 4 /\ AllDigits(s) THEN DigitsValue(s) ELSE 0

\* date(y, m, d) of the parsed fields; <<>> where a field did not parse or
\* the day is not in the month (ValueError)
MakeDate(d, m, y) ==
    IF d = 0 \/ m = 0 \/ y = 0 THEN <<>>
    ELSE IF d > DaysInMonth(y, m) THEN <<>>
    ELSE <<y, m, d>>

StrptimeFields(f) ==
    IF Len(f) # 3 THEN <<>>
    ELSE MakeDate(DayField(f[1]), MonthField(f[2]), YearField(f[3]))

\* The (year, month, day) strptime yields, or <<>> where it raises ValueError
strptime(s) == StrptimeFields(SplitOn(s, "-"))

\* ------------------------------------------------------------------------
\* Score constants, in units of 1/300
\* ------------------------------------------------------------------------
LocationBoost == 45       \* 0.15
DurationBoost == 15       \* 0.05
StipendBoost == 30        \* 0.10
RecencyWeight == 30       \* 0.10
RecencyWindow == 30       \* days
NoResultsBelow == 90      \* 0.30
SuggestionBelow == 135    \* 0.45

\* Variant: 0 <= days_left where the code has 0 < days_left
RecencyBoostClosedAtZero(days_left) ==
    IF 0 <= days_left /\ days_left <= RecencyWindow
    THEN (RecencyWeight * (RecencyWindow - days_left)) \div RecencyWindow
    ELSE 0

\* lines 130-132: what days_left adds to the score
RecencyBoost(days_left) ==
    IF 0 < days_left /\ days_left <= RecencyWindow
    THEN (RecencyWeight * (RecencyWindow - days_left)) \div RecencyWindow
    ELSE 0

\* lines 130-134 once days_left is known
RecencyOfDays(days_left) ==
    [exc |-> "none", parsed |-> TRUE, days_left |-> days_left,
     boost |-> RecencyBoost(days_left)]

\* lines 128-129 on what strptime gave
RecencyOfDate(ymd, today) ==
    IF ymd = <<>>                                           \* ValueError, caught
    THEN [exc |-> "none", parsed |-> FALSE, days_left |-> 0, boost |-> 0]
    ELSE RecencyOfDays(Ordinal(ymd[1], ymd[2], ymd[3])
                         - Ordinal(today[1], today[2], today[3]))

\* lines 127-134 for one catalog item; today is date.today() as (y, m, d).
\* parsed: whether days_left was computed.
Recency(internship, today) ==
    IF "apply_by" \notin DOMAIN internship
    THEN [exc |-> "KeyError", parsed |-> FALSE, days_left |-> 0, boost |-> 0]
    ELSE IF internship.apply_by.t # "str"                  \* TypeError, caught
    THEN [exc |-> "none", parsed |-> FALSE, days_left |-> 0, boost |-> 0]
    ELSE RecencyOfDate(strptime(internship.apply_by.s), today)

\* ------------------------------------------------------------------------
\* recommend_internships
\* ------------------------------------------------------------------------
AnyChoice == <<"A", "n", "y">>
months == <<"m", "o", "n", "t", "h", "s">>

\* line 118: s.lower().replace("months", "").strip()
DurationKey(s) == Strip(RemoveAll(Lower(s), months))

\* lines 122-136 given what parse_stipend and the recency step did
AddBoosts(base, st, rec, stipend_min, stipend_max) ==
    IF st.exc # "none" THEN Raise(st.exc)
    ELSE IF rec.exc # "none" THEN Raise(rec.exc)
    ELSE Return(base
                + (IF stipend_min <= st.val /\ st.val <= stipend_max
                   THEN StipendBoost ELSE 0)
                + rec.boost)

\* lines 111-136: the adjusted score of one catalog item, or the exception
\* the loop body raises
Score(internship, sim, location, duration, stipend_min, stipend_max, today) ==
    AddBoosts(sim
              + (IF location # AnyChoice
                    /\ Contains(Lower(internship.location), Lower(location))
                 THEN LocationBoost ELSE 0)
              + (IF duration # AnyChoice
                    /\ Contains(DurationKey(internship.duration), DurationKey(duration))
                 THEN DurationBoost ELSE 0),
              parse_stipend(internship.stipend),
              Recency(internship, today),
              stipend_min, stipend_max)

\* line 136
AppendScore(acc, one) == IF one.exc # "none" THEN one ELSE Return(Append(acc.val, one.val))

\* lines 108-136: the loop over the catalog; stops at the first exception
RECURSIVE ScoreAll(_, _, _, _, _, _, _, _, _)
ScoreAll(cat, sims, i, acc, location, duration, stipend_min, stipend_max, today) ==
    IF i > Len(cat) \/ acc.exc # "none" THEN acc
    ELSE ScoreAll(cat, sims, i + 1,
                  AppendScore(acc, Score(cat[i], sims[i], location, duration,
                                         stipend_min, stipend_max, today)),
                  location, duration, stipend_min, stipend_max, today)

\* Variant: the indices in any order, as if nothing were sorted
ArgSortsUnsorted(scores) ==
    LET n == Len(scores) IN
    { p \in [1..n -> 1..n] : \A i, j \in 1..n : i # j => p[i] # p[j] }

\* np.argsort(adjusted_scores): an index order along which the scores ascend.
\* The default kind is an unstable sort: the order among equal scores is
\* whatever the build's sort produces, so every ascending order is possible.
ArgSorts(scores) ==
    LET n == Len(scores) IN
    { p \in [1..n -> 1..n] :
        /\ \A i, j \in 1..n : i # j => p[i] # p[j]
        /\ \A i, j \in 1..n : i < j => scores[p[i]] <= scores[p[j]] }

Min2(a, b) == IF a < b THEN a ELSE b

\* Variant: the reversal [::-1] left out
TopIndicesAscending(order, top_k) ==
    [i \in 1..Min2(top_k, Len(order)) |-> order[i]]

\* line 138: [::-1][:top_k]
TopIndices(order, top_k) ==
    [i \in 1..Min2(top_k, Len(order)) |-> order[Len(order) + 1 - i]]

\* line 141
BestScore(top_results) ==
    IF top_results # <<>> THEN top_results[1][2] ELSE 0

\* Variant: <= where the code compares with <
ClassifyInclusive(best_score, top_results) ==
    IF best_score <= NoResultsBelow THEN <<"no_results", <<>> >>
    ELSE IF best_score <= SuggestionBelow THEN <<"suggestion", top_results>>
    ELSE <<"results", top_results>>

\* lines 146-151
Classify(best_score, top_results) ==
    IF best_score < NoResultsBelow THEN <<"no_results", <<>> >>
    ELSE IF best_score < SuggestionBelow THEN <<"suggestion", top_results>>
    ELSE <<"results", top_results>>

\* ------------------------------------------------------------------------
\* Inputs
\* ------------------------------------------------------------------------
\* The decimal digits of a natural number
RECURSIVE ToChars(_)
ToChars(n) ==
    IF n < 10 THEN <<Digits[n + 1]>>
    ELSE ToChars(n \div 10) \o <<Digits[(n % 10) + 1]>>

Capitalized(s) ==
    [i \in 1..Len(s) |->
        IF i = 1 THEN UpperLetters[CHOOSE k \in 1..26 : LowerLetters[k] = s[1]]
        ELSE s[i]]

\* day-Mon-year, as the catalog writes deadlines
DateStr(d, m, y) ==
    ToChars(d) \o <<"-">> \o Capitalized(MonthAbbr[m]) \o <<"-">> \o ToChars(y)

StipendAlphabet == {"5", "8", ",", "-", " ", "k"}

StipendExamples ==
    { <<"5", "0", "0", "0", "-", "8", "0", "0", "0", " ",
        "p", "e", "r", " ", "m", "o", "n", "t", "h">>,
      <<"5", ",", "0", "0", "0", " ", "-", " ", "8", ",", "0", "0", "0", " ",
        "p", "e", "r", " ", "m", "o", "n", "t", "h">>,
      <<"U", "n", "p", "a", "i", "d">>,
      <<"n", "o", "t", " ", "a", " ", "n", "u", "m", "b", "e", "r">>,
      <<"5", "-", "6", "-", "7">>,
      <<"1", "2", ",", "0", "0", "0", " ", "/", "m", "o", "n", "t", "h">> }

StipendInputs ==
    { Str(s) : s \in UNION { [1..n -> StipendAlphabet] : n \in 0..MaxLen } }
        \cup { Str(s) : s \in StipendExamples }
        \cup { Num(0), Num(12000), None }

DeadlineInputs ==
    { Str(DateStr(d, m, 2025)) : d \in 1..32, m \in 1..3 }
        \cup { Str(<<"s", "o", "o", "n">>), Str(<<>>),
               Str(<<"2", "0", "2", "5", "-", "0", "3", "-", "1", "5">>),
               Str(<<"1", "5", "-", "m", "a", "r", "-", "2", "0", "2", "5">>),
               Str(<<"2", "9", "-", "F", "e", "b", "-", "2", "0", "2", "4">>),
               None, Num(20250315) }

TodayInputs == { <<2024, 12, 31>>, <<2025, 1, 31>>, <<2025, 2, 1>>, <<2025, 3, 1>> }

Pune == <<"P", "u", "n", "e">>
Delhi == <<"D", "e", "l", "h", "i">>
ThreeMonths == <<"3", " ", "M", "o", "n", "t", "h", "s">>
SixMonths == <<"6", " ", "M", "o", "n", "t", "h", "s">>

BaseItem ==
    [location |-> Pune, duration |-> ThreeMonths,
     stipend |-> Str(<<"5", "0", "0", "0", "-", "8", "0", "0", "0", " ",
                       "p", "e", "r", " ", "m", "o", "n", "t", "h">>),
     apply_by |-> Str(DateStr(15, 1, 2025))]

NoDeadlineItem == [location |-> Pune, duration |-> ThreeMonths, stipend |-> Num(6500)]

\* Catalog rows with the cosine similarity the query has to each
RankPool ==
    { [item |-> BaseItem, sim |-> 89],
      [item |-> BaseItem, sim |-> 90],
      [item |-> [BaseItem EXCEPT !.location = Delhi, !.duration = SixMonths,
                                 !.stipend = Num(12000),
                                 !.apply_by = Str(DateStr(11, 3, 2025))],
       sim |-> 60],
      [item |-> [BaseItem EXCEPT !.stipend = Str(<<"a", "b", "c">>),
                                 !.apply_by = Str(<<"s", "o", "o", "n">>)],
       sim |-> 90],
      [item |-> [BaseItem EXCEPT !.stipend = None], sim |-> 90],
      [item |-> NoDeadlineItem, sim |-> 90],
      [item |-> [BaseItem EXCEPT !.stipend = Str(<<>>), !.apply_by = None],
       sim |-> 135] }

RankCatalogs == UNION { [1..n -> RankPool] : n \in 0..MaxItems }

\* The catalog row with its unique id
WithId(item, i) ==
    [f \in (DOMAIN item) \cup {"internship_id"} |->
        IF f = "internship_id" THEN i ELSE item[f]]

LocationChoices == { AnyChoice, <<"p", "u", "n", "e">> }
DurationChoices == { AnyChoice, <<"3", " ", "m", "o", "n", "t", "h", "s">> }
\* lines 291-301: the (stipend_min, stipend_max) pairs the form produces
StipendRanges == { <<0, 999999>>, <<20001, 999999>> }
RankToday == <<2025, 3, 1>>

\* ------------------------------------------------------------------------
\* Initial values
\* ------------------------------------------------------------------------
\* parse_stipend not called
StipendIdle ==
    /\ stipend_str = Num(0)
    /\ stipend_ret = [done |-> FALSE, exc |-> "none", val |-> 0]

\* The recency step not run
RecencyIdle ==
    rb = [pc |-> "idle", internship |-> NoDeadlineItem, today |-> RankToday,
          exc |-> "none", parsed |-> FALSE, days_left |-> 0, boost |-> 0]

\* recommend_internships not called
RankIdleValue ==
    [pc |-> "idle", internships |-> <<>>, similarities |-> <<>>,
     location |-> AnyChoice, duration |-> AnyChoice,
     stipend_min |-> 0, stipend_max |-> 0, top_k |-> 1, today |-> RankToday,
     adjusted_scores |-> <<>>, top_indices |-> <<>>, top_results |-> <<>>,
     best_score |-> 0, exc |-> "none", status |-> "", results |-> <<>>]

RankIdle == rk = RankIdleValue

\* ------------------------------------------------------------------------
\* create_or_update_embeddings
\* ------------------------------------------------------------------------
Procs == {1, 2}     \* the script runs (Streamlit sessions) that may call it

EmptyDict == [k \in {} |-> <<>>]

\* d[k] = v on a dict
Put(d, k, v) == [x \in (DOMAIN d) \cup {k} |-> IF x = k THEN v ELSE d[x]]

\* item.get(field, "")
Get(item, field) == IF field \in DOMAIN item THEN item[field] ELSE ""

\* line 59: str(internship["internship_id"])
RECURSIVE str(_)
str(n) ==
    IF n < 10 THEN Digits[n + 1] ELSE str(n \div 10) \o Digits[(n % 10) + 1]

\* line 62: the four fields joined by single spaces
EmbeddingText(internship) ==
    <<internship.title, " ", internship.organization, " ",
      Get(internship, "description"), " ", Get(internship, "skills")>>

\* line 63: model.encode(text).tolist(); the provider gives one vector per text
Encode(text) == <<"vector of", text>>

\* lines 49-55: the dict the run starts from
LoadCache(file) == IF file.state = "ok" THEN file.data ELSE EmptyDict

\* Variant: the test of line 60 left out
NeedsEmbeddingAlways(c, iid) == TRUE

\* line 60
NeedsEmbedding(c, iid) == iid \notin DOMAIN c

\* Variant: the test of line 67 left out
ShouldWriteAlways(upd) == TRUE

\* line 67
ShouldWrite(upd) == upd

CacheTitles == {"Data Analyst", "Web Developer"}

CacheItems ==
    { [internship_id |-> i, title |-> t, organization |-> "Acme"] :
        i \in 1..MaxId, t \in CacheTitles }

CacheCatalogs == UNION { [1..n -> CacheItems] : n \in 0..MaxCatalog }

CacheInit ==
    /\ cache_file = [state |-> "absent", data |-> EmptyDict]
    /\ pc = [p \in Procs |-> "idle"]
    /\ internships = [p \in Procs |-> <<>>]
    /\ cache = [p \in Procs |-> EmptyDict]
    /\ idx = [p \in Procs |-> 1]
    /\ updated = [p \in Procs |-> FALSE]
    /\ embeddings_matrix = [p \in Procs |-> <<>>]
    /\ encoded = [p \in Procs |-> <<>>]
    /\ writes = [p \in Procs |-> 0]
    /\ start_file = [p \in Procs |-> [state |-> "absent", data |-> EmptyDict]]

\* lines 43-57: the call, the load of the cache file, updated = False
Begin(p, cat) ==
    /\ pc[p] = "idle"
    /\ pc' = [pc EXCEPT ![p] = "loop"]
    /\ internships' = [internships EXCEPT ![p] = cat]
    /\ cache' = [cache EXCEPT ![p] = LoadCache(cache_file)]
    /\ idx' = [idx EXCEPT ![p] = 1]
    /\ updated' = [updated EXCEPT ![p] = FALSE]
    /\ embeddings_matrix' = [embeddings_matrix EXCEPT ![p] = <<>>]
    /\ encoded' = [encoded EXCEPT ![p] = <<>>]
    /\ writes' = [writes EXCEPT ![p] = 0]
    /\ start_file' = [start_file EXCEPT ![p] = cache_file]
    /\ UNCHANGED cache_file

\* One run at a time: the next starts when the last has returned
BeginSeq(p) ==
    /\ \A q \in Procs : pc[q] = "idle"
    /\ \E cat \in CacheCatalogs : Begin(p, cat)

\* Sessions overlap
BeginConc(p) == \E cat \in CacheCatalogs : Begin(p, cat)

\* lines 58-65: one iteration of the loop, the provider answering
EmbedNext(p) ==
    /\ pc[p] = "loop"
    /\ idx[p] <= Len(internships[p])
    /\ LET internship == internships[p][idx[p]]
           iid == str(internship.internship_id)
       IN IF NeedsEmbedding(cache[p], iid)
          THEN /\ cache' = [cache EXCEPT
                              ![p] = Put(@, iid, Encode(EmbeddingText(internship)))]
               /\ updated' = [updated EXCEPT ![p] = TRUE]
               /\ encoded' = [encoded EXCEPT ![p] = Append(@, iid)]
          ELSE UNCHANGED <<cache, updated, encoded>>
    /\ idx' = [idx EXCEPT ![p] = @ + 1]
    /\ UNCHANGED <<cache_file, pc, internships, embeddings_matrix, writes, start_file>>

\* line 63 raising: the exception leaves the function at once
ProviderFails(p) ==
    /\ pc[p] = "loop"
    /\ idx[p] <= Len(internships[p])
    /\ NeedsEmbedding(cache[p], str(internships[p][idx[p]].internship_id))
    /\ pc' = [pc EXCEPT ![p] = "raised"]
    /\ UNCHANGED <<cache_file, internships, cache, idx, updated,
                   embeddings_matrix, encoded, writes, start_file>>

\* lines 67-73: after the loop, the write of the whole dict and the matrix
Persist(p) ==
    /\ pc[p] = "loop"
    /\ idx[p] > Len(internships[p])
    /\ IF ShouldWrite(updated[p])
       THEN /\ cache_file' = [state |-> "ok", data |-> cache[p]]
            /\ writes' = [writes EXCEPT ![p] = @ + 1]
       ELSE UNCHANGED <<cache_file, writes>>
    /\ embeddings_matrix' =
         [embeddings_matrix EXCEPT
            ![p] = [i \in 1..Len(internships[p]) |->
                       cache[p][str(internships[p][i].internship_id)]]]
    /\ pc' = [pc EXCEPT ![p] = "done"]
    /\ UNCHANGED <<internships, cache, idx, updated, encoded, start_file>>

\* The run is over: its caller has the matrix or the exception, and the
\* locals are gone
Finish(p) ==
    /\ pc[p] \in {"done", "raised"}
    /\ pc' = [pc EXCEPT ![p] = "idle"]
    /\ internships' = [internships EXCEPT ![p] = <<>>]
    /\ cache' = [cache EXCEPT ![p] = EmptyDict]
    /\ idx' = [idx EXCEPT ![p] = 1]
    /\ updated' = [updated EXCEPT ![p] = FALSE]
    /\ embeddings_matrix' = [embeddings_matrix EXCEPT ![p] = <<>>]
    /\ encoded' = [encoded EXCEPT ![p] = <<>>]
    /\ writes' = [writes EXCEPT ![p] = 0]
    /\ start_file' = [start_file EXCEPT ![p] = [state |-> "absent", data |-> EmptyDict]]
    /\ UNCHANGED cache_file

\* Between runs the file is damaged so that json.load fails (lines 53-55)
CorruptFile ==
    /\ \A q \in Procs : pc[q] = "idle"
    /\ cache_file.state = "ok"
    /\ cache_file' = [state |-> "corrupt", data |-> EmptyDict]
    /\ UNCHANGED <<pc, internships, cache, idx, updated,
                   embeddings_matrix, encoded, writes, start_file>>

nonCacheVars == <<stipend_str, stipend_ret, rb, rk>>

NextSeq ==
    \/ \E p \in Procs : BeginSeq(p) /\ UNCHANGED nonCacheVars
    \/ \E p \in Procs : EmbedNext(p) /\ UNCHANGED nonCacheVars
    \/ \E p \in Procs : ProviderFails(p) /\ UNCHANGED nonCacheVars
    \/ \E p \in Procs : Persist(p) /\ UNCHANGED nonCacheVars
    \/ \E p \in Procs : Finish(p) /\ UNCHANGED nonCacheVars
    \/ CorruptFile /\ UNCHANGED nonCacheVars

NextConc ==
    \/ \E p \in Procs : BeginConc(p) /\ UNCHANGED nonCacheVars
    \/ \E p \in Procs : EmbedNext(p) /\ UNCHANGED nonCacheVars
    \/ \E p \in Procs : Persist(p) /\ UNCHANGED nonCacheVars
    \/ \E p \in Procs : Finish(p) /\ UNCHANGED nonCacheVars

\* Sequential runs of the cache builder
InitSeq == CacheInit /\ StipendIdle /\ RecencyIdle /\ RankIdle

Spec == InitSeq /\ [][NextSeq]_vars

\* Overlapping runs of the cache builder
InitConc == CacheInit /\ StipendIdle /\ RecencyIdle /\ RankIdle

SpecConc == InitConc /\ [][NextConc]_vars

\* ------------------------------------------------------------------------
\* Calls of parse_stipend
\* ------------------------------------------------------------------------
StipendInit ==
    /\ stipend_str \in StipendInputs
    /\ stipend_ret = [done |-> FALSE, exc |-> "none", val |-> 0]

\* lines 81-94, the whole call
ParseStipendCall ==
    /\ ~stipend_ret.done
    /\ stipend_ret' = [done |-> TRUE, exc |-> parse_stipend(stipend_str).exc,
                       val |-> parse_stipend(stipend_str).val]
    /\ UNCHANGED <<cacheVars, stipend_str, rb, rk>>

InitStipend == CacheInit /\ StipendInit /\ RecencyIdle /\ RankIdle

SpecStipend == InitStipend /\ [][ParseStipendCall]_vars

\* ------------------------------------------------------------------------
\* The recency step of the scoring loop on one item
\* ------------------------------------------------------------------------
RecencyItems ==
    { [location |-> Pune, duration |-> ThreeMonths, stipend |-> Num(6500),
       apply_by |-> a] : a \in DeadlineInputs } \cup { NoDeadlineItem }

RecencyInit ==
    \E it \in RecencyItems, t \in TodayInputs :
        rb = [pc |-> "start", internship |-> it, today |-> t, exc |-> "none",
              parsed |-> FALSE, days_left |-> 0, boost |-> 0]

\* lines 126-134 on the item
RecencyStep ==
    /\ rb.pc = "start"
    /\ LET r == Recency(rb.internship, rb.today)
       IN rb' = [rb EXCEPT !.pc = IF r.exc = "none" THEN "done" ELSE "raised",
                           !.exc = r.exc, !.parsed = r.parsed,
                           !.days_left = r.days_left, !.boost = r.boost]
    /\ UNCHANGED <<cacheVars, stipend_str, stipend_ret, rk>>

InitRecency == CacheInit /\ StipendIdle /\ RecencyInit /\ RankIdle

SpecRecency == InitRecency /\ [][RecencyStep]_vars

\* ------------------------------------------------------------------------
\* Calls of recommend_internships
\* ------------------------------------------------------------------------
\* lines 138-151 for the order np.argsort returned
Ranked(args, cat, adjusted_scores, top_indices, top_results) ==
    [args EXCEPT
        !.pc = "returned",
        !.adjusted_scores = adjusted_scores,
        !.top_indices = top_indices,
        !.top_results = top_results,
        !.best_score = BestScore(top_results),
        !.status = Classify(BestScore(top_results), top_results)[1],
        !.results = Classify(BestScore(top_results), top_results)[2]]

TopResults(cat, adjusted_scores, top_indices) ==
    [i \in 1..Len(top_indices) |->
        <<cat[top_indices[i]], adjusted_scores[top_indices[i]]>>]

RankBy(args, cat, adjusted_scores, top_indices) ==
    Ranked(args, cat, adjusted_scores, top_indices,
           TopResults(cat, adjusted_scores, top_indices))

\* lines 108-151 once the loop has run
AfterScoring(args, cat, scored, top_k) ==
    IF scored.exc # "none"
    THEN rk' = [args EXCEPT !.pc = "raised", !.exc = scored.exc]
    ELSE \E order \in ArgSorts(scored.val) :
            rk' = RankBy(args, cat, scored.val, TopIndices(order, top_k))

\* lines 100-151, the whole call, on the arguments and globals in args
Recommend(args) ==
    /\ IF Len(args.internships) = 0
       THEN \* line 106: cosine_similarity refuses the matrix np.array([])
            rk' = [args EXCEPT !.pc = "raised", !.exc = "ValueError"]
       ELSE AfterScoring(args, args.internships,
                         ScoreAll(args.internships, args.similarities, 1,
                                  Return(<<>>), args.location, args.duration,
                                  args.stipend_min, args.stipend_max, args.today),
                         args.top_k)
    /\ UNCHANGED <<cacheVars, stipend_str, stipend_ret, rb>>

\* The catalog, the similarities of the query to it, and the arguments of
\* the call
CallArgs(rows, location, duration, stipend_min, stipend_max, top_k, today) ==
    [RankIdleValue EXCEPT
        !.internships = [i \in 1..Len(rows) |-> WithId(rows[i].item, i)],
        !.similarities = [i \in 1..Len(rows) |-> rows[i].sim],
        !.location = location, !.duration = duration,
        !.stipend_min = stipend_min, !.stipend_max = stipend_max,
        !.top_k = top_k, !.today = today]

RankInit ==
    \E rows \in RankCatalogs, location \in LocationChoices,
       duration \in DurationChoices, range \in StipendRanges, top_k \in 1..MaxTopK :
          rk = CallArgs(rows, location, duration, range[1], range[2], top_k, RankToday)

RecommendCall ==
    /\ rk.pc = "idle"
    /\ Recommend(rk)

InitRank == CacheInit /\ StipendIdle /\ RecencyIdle /\ RankInit

SpecRank == InitRank /\ [][RecommendCall]_vars

\* ========================================================================
\* Properties
\* ========================================================================
RankedPositions == 1..Len(rk.top_indices)
CatalogPositions == 1..Len(rk.internships)
Selected == { rk.top_indices[i] : i \in RankedPositions }

\* The highest adjusted score among the selected items
SelectedBest ==
    CHOOSE b \in { rk.adjusted_scores[c] : c \in Selected } :
        \A c \in Selected : rk.adjusted_scores[c] <= b

\* The selected items with their scores, in rank order
SelectedItems ==
    [i \in RankedPositions |->
        <<rk.internships[rk.top_indices[i]], rk.adjusted_scores[rk.top_indices[i]]>>]

\* C1: a call that returns classifies by the highest adjusted score among
\* the selected top-K items: below 0.30 (90) no_results with an empty list,
\* from 0.30 to below 0.45 (135) suggestion with the top-K items, from 0.45
\* results with the top-K items.
C1_TierByBestScore ==
    rk.pc = "returned" =>
        /\ SelectedBest < 90 => rk.status = "no_results" /\ rk.results = <<>>
        /\ (90 <= SelectedBest /\ SelectedBest < 135) =>
               rk.status = "suggestion" /\ rk.results = SelectedItems
        /\ SelectedBest >= 135 => rk.status = "results" /\ rk.results = SelectedItems

\* A call whose best score is exactly 0.30 returned suggestion
C1_Witness ==
    /\ rk.pc = "returned"
    /\ SelectedBest = 90
    /\ rk.status = "suggestion"
    /\ Len(rk.results) >= 1

\* The stable descending order of the catalog positions by adjusted score
StableDescending(scores) ==
    CHOOSE p \in [1..Len(scores) -> 1..Len(scores)] :
        /\ \A i, j \in 1..Len(scores) : i # j => p[i] # p[j]
        /\ \A i, j \in 1..Len(scores) : i < j =>
              \/ scores[p[i]] > scores[p[j]]
              \/ scores[p[i]] = scores[p[j]] /\ p[i] < p[j]

AdjustedScoreAt(c) ==
    Score(rk.internships[c], rk.similarities[c], rk.location, rk.duration,
          rk.stipend_min, rk.stipend_max, rk.today).val

\* C3: when the outcome is suggestion or results the list has
\* min(top_k, n) entries, no catalog item twice, scores non-increasing, each
\* entry carrying its item's adjusted score, and no item left out scores
\* higher than a returned one.
C3_TopKList ==
    (rk.pc = "returned" /\ rk.status \in {"suggestion", "results"}) =>
        /\ Len(rk.results) = Min2(rk.top_k, Len(rk.internships))
        /\ Len(rk.top_indices) = Len(rk.results)
        /\ \A i, j \in RankedPositions : i # j => rk.top_indices[i] # rk.top_indices[j]
        /\ \A i, j \in RankedPositions : i < j => rk.results[i][2] >= rk.results[j][2]
        /\ \A i \in RankedPositions :
              /\ rk.results[i][1] = rk.internships[rk.top_indices[i]]
              /\ rk.results[i][2] = AdjustedScoreAt(rk.top_indices[i])
        /\ \A c \in CatalogPositions \ Selected :
              \A i \in RankedPositions : AdjustedScoreAt(c) <= rk.results[i][2]

\* A confident result cut three scored items down to two
C3_Witness ==
    /\ rk.pc = "returned"
    /\ rk.status = "results"
    /\ Len(rk.internships) = 3
    /\ rk.top_k = 2
    /\ Len(rk.results) = 2
    /\ \E c \in CatalogPositions \ Selected : rk.adjusted_scores[c] < rk.results[2][2]

\* C4 as stated: on an empty catalog the call returns no_results with an
\* empty list and raises nothing.
C4_EmptyCatalogNoResults ==
    (rk.pc # "idle" /\ rk.internships = <<>>) =>
        /\ rk.pc = "returned"
        /\ rk.exc = "none"
        /\ rk.status = "no_results"
        /\ rk.results = <<>>

\* C6 as stated: on a catalog with items, whatever the stipend and apply_by
\* of its items, the call returns an outcome and raises nothing.
C6_MalformedItemNeverAborts ==
    (rk.pc # "idle" /\ rk.internships # <<>>) =>
        /\ rk.pc = "returned"
        /\ rk.exc = "none"

\* ------------------------------------------------------------------------
\* parse_stipend
\* ------------------------------------------------------------------------
\* Reading a string as "low-high" followed by optional text, commas dropped:
\* the text before the first hyphen, the text after it, and the digits that
\* open the latter.
BeforeHyphen(s) ==
    SubSeq(s, 1, (CHOOSE i \in 1..Len(s) : s[i] = "-" /\ \A j \in 1..(i - 1) : s[j] # "-") - 1)

AfterHyphen(s) ==
    SubSeq(s, (CHOOSE i \in 1..Len(s) : s[i] = "-" /\ \A j \in 1..(i - 1) : s[j] # "-") + 1,
           Len(s))

RECURSIVE LeadingDigits(_)
LeadingDigits(s) ==
    IF s # <<>> /\ IsDigit(Head(s)) THEN <<Head(s)>> \o LeadingDigits(Tail(s)) ELSE <<>>

\* The string states a range: digits, a hyphen either tight on both sides or
\* spaced on both sides, digits, then the end or a space and more text
StatesRange(s) ==
    /\ HasChar(s, "-")
    /\ LET b == BeforeHyphen(s)
           a == AfterHyphen(s)
           low == RStrip(b)
           high == LeadingDigits(LStrip(a))
       IN /\ low # <<>> /\ AllDigits(low)
          /\ high # <<>>
          /\ (b = low) <=> (a = LStrip(a))
          /\ \/ Len(LStrip(a)) = Len(high)
             \/ LStrip(a)[Len(high) + 1] = " "

RangeAverage(s) ==
    (DigitsValue(RStrip(BeforeHyphen(s)))
        + DigitsValue(LeadingDigits(LStrip(AfterHyphen(s))))) \div 2

\* C5 as stated: a string stating a range low-high, tight or spaced, parses
\* to (low + high) // 2 with the commas stripped first.
C5_RangeAverage ==
    (stipend_ret.done /\ stipend_str.t = "str"
        /\ StatesRange(RemoveChar(stipend_str.s, ","))) =>
        /\ stipend_ret.exc = "none"
        /\ stipend_ret.val = RangeAverage(RemoveChar(stipend_str.s, ","))

\* ------------------------------------------------------------------------
\* Recency boost
\* ------------------------------------------------------------------------
\* C7: the boost is 0 when days_left <= 0 or days_left > 30 and
\* 0.10 * (30 - days_left) / 30 in between (in units of 1/300: 30 - days_left),
\* so it lies in [0, 0.10), is 0.10 * 29/30 at one day, 0 at thirty, and
\* never grows with days_left.
C7_RecencyBoost ==
    (rb.pc = "done" /\ rb.parsed) =>
        /\ (rb.days_left <= 0 \/ rb.days_left > 30) => rb.boost = 0
        /\ (0 < rb.days_left /\ rb.days_left <= 30) =>
              30 * rb.boost = 30 * (30 - rb.days_left)
        /\ 0 <= rb.boost /\ rb.boost < 30
        /\ rb.days_left = 1 => rb.boost = 29
        /\ rb.days_left = 30 => rb.boost = 0
        /\ \A d \in 1..29 : RecencyBoost(d + 1) <= RecencyBoost(d)
        /\ \A d \in 1..30 : RecencyBoost(d) = 30 - d

\* A deadline of 1-Feb-2025 seen on 31-Jan-2025: one day left, boost 0.10*29/30
C7_Witness ==
    /\ rb.pc = "done"
    /\ rb.parsed
    /\ rb.internship.apply_by = Str(DateStr(1, 2, 2025))
    /\ rb.today = <<2025, 1, 31>>
    /\ rb.days_left = 1
    /\ rb.boost = 29

\* ------------------------------------------------------------------------
\* create_or_update_embeddings
\* ------------------------------------------------------------------------
FileKeys(file) == IF file.state = "ok" THEN DOMAIN file.data ELSE {}

CatalogKeys(p) == { str(internships[p][i].internship_id) : i \in 1..Len(internships[p]) }

\* C8: with runs one after another and the file parseable, an id persisted
\* with a vector keeps that vector through every step, no step hands that id
\* to the provider, and a run that finds all its ids persisted calls the
\* provider for nothing and leaves the file as it found it.
C8_PersistedVectorsKept ==
    [][ /\ (cache_file.state = "ok" /\ cache_file'.state = "ok") =>
              \A k \in DOMAIN cache_file.data :
                  /\ k \in DOMAIN cache_file'.data
                  /\ cache_file'.data[k] = cache_file.data[k]
        /\ \A p \in Procs : \A k \in FileKeys(cache_file) :
              encoded'[p] # Append(encoded[p], k)
        /\ \A p \in Procs :
              (pc'[p] = "done" /\ start_file'[p].state = "ok"
                  /\ \A i \in 1..Len(internships'[p]) :
                        str(internships'[p][i].internship_id) \in DOMAIN start_file'[p].data)
              => /\ encoded'[p] = <<>>
                 /\ writes'[p] = 0
                 /\ cache_file' = start_file'[p]
      ]_vars

\* A run met an id persisted with the vector of another text, finished, and
\* the persisted vector is still the old one
C8_Witness ==
    \E p \in Procs :
        /\ pc[p] = "done"
        /\ start_file[p].state = "ok"
        /\ cache_file.state = "ok"
        /\ \E i \in 1..Len(internships[p]) :
              LET k == str(internships[p][i].internship_id) IN
              /\ k \in DOMAIN start_file[p].data
              /\ start_file[p].data[k] # Encode(EmbeddingText(internships[p][i]))
              /\ cache_file.data[k] = start_file[p].data[k]
              /\ \A j \in 1..Len(encoded[p]) : encoded[p][j] # k

\* C9 as stated: runs that overlap on the same catalog never both compute
\* the embedding of the same id.
C9_OneComputationPerId ==
    \A p, q \in Procs :
        (p # q /\ internships[p] = internships[q]) =>
            \A i \in 1..Len(encoded[p]) : \A j \in 1..Len(encoded[q]) :
                encoded[p][i] # encoded[q][j]

\* C10: a run writes the file at most once, and only after its loop; a run
\* that returned wrote once if some id of its catalog was missing from the
\* cache it loaded (and then the file holds the loaded cache plus every id
\* of the catalog) and never otherwise; a run the provider failed wrote
\* nothing and the file is as it was when the run began.
C10_OneWritePerRun ==
    \A p \in Procs :
        /\ writes[p] <= 1
        /\ pc[p] \in {"loop", "raised"} => writes[p] = 0
        /\ pc[p] = "raised" => cache_file = start_file[p]
        /\ pc[p] = "done" =>
              IF CatalogKeys(p) \subseteq FileKeys(start_file[p])
              THEN writes[p] = 0 /\ cache_file = start_file[p]
              ELSE /\ writes[p] = 1
                   /\ cache_file.state = "ok"
                   /\ DOMAIN cache_file.data = FileKeys(start_file[p]) \cup CatalogKeys(p)
                   /\ Len(encoded[p]) = Cardinality(CatalogKeys(p) \ FileKeys(start_file[p]))

\* The provider failed after the run had already embedded an item, and the
\* file is untouched
C10_Witness ==
    \E p \in Procs :
        /\ pc[p] = "raised"
        /\ encoded[p] # <<>>
        /\ writes[p] = 0
        /\ cache_file = start_file[p]

====
